---- MODULE Spec2Model ----
(***************************************************************************)
(* Sparse univariate polynomials over int coefficients (poly.cpp):         *)
(* the canonical term map, +, * (sequential and pthread fan-out paths),    *)
(* scalar * and the long-division remainder %.                             *)
(*                                                                         *)
(* A polynomial's `terms` (std::map<power, coeff, std::greater<power>>) is *)
(* a function from a finite set of exponents to coefficients; begin() is   *)
(* the entry with the largest key.  An unordered_map accumulator is a      *)
(* function of the same shape.  Coefficients are unbounded integers here:  *)
(* every input is drawn from the bounded sets below, and no run of the     *)
(* model gets near the width of int.                                       *)
(***************************************************************************)
EXTENDS Integers, Sequences, FiniteSets, TLC

\* ---------------------------------------------------------------- bounds
MaxExp == 2        \* largest exponent in a constructor input pair
MaxCoef == 2       \* largest |coefficient| in a constructor input pair
MaxInt == 2        \* largest |n| passed to operator+(int) / operator*(int)
MaxTermsA == 9     \* most terms of the left operand of a threaded operator*
MaxTermsB == 2     \* most terms of the right operand of a threaded operator*

\* ------------------------------------------------------- program constants
MAX_THREADS == 8

\* ------------------------------------------------------------- containers
EmptyMap == << >>

Max(S) == CHOOSE m \in S : \A k \in S : k <= m

Min2(m, n) == IF m <= n THEN m ELSE n

Abs(n) == IF n < 0 THEN -n ELSE n

\* terms.begin()->first under std::greater: the largest stored exponent
begin(terms) == Max(DOMAIN terms)

\* m[p] += c on a map whose operator[] value-initialises a missing entry to 0
accumulate(m, p, c) ==
    IF p \in DOMAIN m THEN [m EXCEPT ![p] = @ + c] ELSE m @@ (p :> c)

\* polynomial::polynomial()
polynomial == (0 :> 0)

clean_no_sentinel(terms) ==
    LET keep == {p \in DOMAIN terms : terms[p] # 0} IN [p \in keep |-> terms[p]]

\* static void clean(terms)
clean(terms) ==
    LET keep == {p \in DOMAIN terms : terms[p] # 0}
    IN  IF keep = {} THEN (0 :> 0) ELSE [p \in keep |-> terms[p]]

\* the test `terms.size() == 1 && terms.begin()->second == 0`
is_zero(terms) == Cardinality(DOMAIN terms) = 1 /\ terms[begin(terms)] = 0

\* polynomial::find_degree_of
find_degree_of(terms) == begin(terms)

\* std::vector<std::pair<power, coeff>>(terms.begin(), terms.end()):
\* the entries in descending exponent order
RECURSIVE to_vector(_)
to_vector(terms) ==
    IF DOMAIN terms = {} THEN << >>
    ELSE LET p == Max(DOMAIN terms)
         IN  << <<p, terms[p]>> >> \o to_vector([q \in DOMAIN terms \ {p} |-> terms[q]])

\* polynomial::canonical_form
canonical_form(terms) ==
    LET out == SelectSeq(to_vector(terms), LAMBDA t : t[2] # 0)
    IN  IF out = << >> THEN << <<0, 0>> >> ELSE out

\* for (it = begin; it != end; ++it) terms[it->first] += it->second;
RECURSIVE fold_pairs(_, _, _)
fold_pairs(terms, pairs, k) ==
    IF k > Len(pairs) THEN terms
    ELSE fold_pairs(accumulate(terms, pairs[k][1], pairs[k][2]), pairs, k + 1)

\* polynomial::polynomial(Iter begin, Iter end)
polynomial_from(pairs) == clean(fold_pairs(EmptyMap, pairs, 1))

\* C++ integer division truncates toward zero
trunc_div(n, m) ==
    IF (n < 0) = (m < 0) THEN Abs(n) \div Abs(m) ELSE -(Abs(n) \div Abs(m))

\* ------------------------------------------------------------ operator+
add_from_empty(terms, other) == clean(fold_pairs(EmptyMap, to_vector(other), 1))

\* polynomial::operator+(const polynomial &other)
add(terms, other) == clean(fold_pairs(terms, to_vector(other), 1))

\* polynomial::operator+(int x), and operator+(int x, const polynomial &p)
add_int(terms, n) == clean(accumulate(terms, 0, n))

\* ------------------------------------------------------------ operator*
mul_acc_overwrite(local, at, bt) ==
    (at[1] + bt[1] :> at[2] * bt[2]) @@ local

\* the loop body shared by multiply_worker and the sequential path:
\* p = at.first + bt.first; c = at.second * bt.second; local[p] += c
mul_acc(local, at, bt) == accumulate(local, at[1] + bt[1], at[2] * bt[2])

\* for (const auto &bt : b) ... from the (0-based) position j on
RECURSIVE inner_loop(_, _, _, _)
inner_loop(local, at, b, j) ==
    IF j >= Len(b) THEN local
    ELSE inner_loop(mul_acc(local, at, b[j + 1]), at, b, j + 1)

\* for (i = start; i < end; ++i) ... over the 0-based positions of a
RECURSIVE outer_loop(_, _, _, _, _)
outer_loop(local, a, b, i, end) ==
    IF i >= end THEN local
    ELSE outer_loop(inner_loop(local, a[i + 1], b, 0), a, b, i + 1, end)

\* multiply_worker run from its first to its last step on an empty accumulator
multiply_worker(a, b, start, end) == outer_loop(EmptyMap, a, b, start, end)

num_threads_always_max(n) == MAX_THREADS

num_threads_uncapped(n) == n

\* num_threads = min(MAX_THREADS, a.size())
num_threads_of(n) == Min2(MAX_THREADS, n)

chunk_floor(n, nt) == n \div nt

\* chunk = (n + num_threads - 1) / num_threads
chunk_of(n, nt) == (n + nt - 1) \div nt

task_start_overlapping(t, chunk) == IF t = 0 THEN 0 ELSE t * chunk - 1

\* start = t * chunk; end = min(n, start + chunk)
task_start(t, chunk) == t * chunk

task_end_unclamped(t, chunk, n) == t * chunk + chunk

task_end(t, chunk, n) == Min2(n, t * chunk + chunk)

merge_local_overwrite(result, local) == local @@ result

\* for (kv : local) result.terms[kv.first] += kv.second
merge_local(result, local) == fold_pairs(result, to_vector(local), 1)

\* for (local : partials) ... over the 1-based positions of partials
RECURSIVE merge_partials(_, _, _)
merge_partials(result, partials, k) ==
    IF k > Len(partials) THEN result
    ELSE merge_partials(merge_local(result, partials[k]), partials, k + 1)

sequential_multiply_first_b(a, b) ==
    clean(outer_loop(EmptyMap, a, <<b[1]>>, 0, Len(a)))

\* the num_threads <= 1 branch of operator*
sequential_multiply(a, b) == clean(outer_loop(EmptyMap, a, b, 0, Len(a)))

\* the fan-out branch of operator*, every worker run to completion
parallel_multiply(a, b) ==
    LET n == Len(a)
        nt == num_threads_of(n)
        chunk == chunk_of(n, nt)
        partials == [k \in 1..nt |->
                        IF task_start(k - 1, chunk) >= task_end(k - 1, chunk, n)
                        THEN EmptyMap
                        ELSE multiply_worker(a, b, task_start(k - 1, chunk),
                                             task_end(k - 1, chunk, n))]
    IN  clean(merge_partials(EmptyMap, partials, 1))

zero_operand_left_only(terms, other) == is_zero(terms)

\* the zero checks at the head of operator*
zero_operand(terms, other) == is_zero(terms) \/ is_zero(other)

\* polynomial::operator*(const polynomial &other)
multiply(terms, other) ==
    IF zero_operand(terms, other) THEN polynomial
    ELSE LET a == to_vector(terms)
             b == to_vector(other)
         IN  IF a = << >> \/ b = << >> THEN polynomial
             ELSE IF num_threads_of(Len(a)) <= 1 THEN sequential_multiply(a, b)
             ELSE parallel_multiply(a, b)

\* the number of pthread_create calls one call of operator* makes
threads_launched(terms, other) ==
    IF zero_operand(terms, other) THEN 0
    ELSE LET a == to_vector(terms)
             b == to_vector(other)
             n == Len(a)
             nt == num_threads_of(n)
             chunk == chunk_of(n, nt)
         IN  IF a = << >> \/ b = << >> THEN 0
             ELSE IF nt <= 1 THEN 0
             ELSE Cardinality({t \in 0..(nt - 1) :
                                 task_start(t, chunk) < task_end(t, chunk, n)})

\* polynomial::operator*(int x), and operator*(int x, const polynomial &p)
multiply_int(terms, n) == clean([p \in DOMAIN terms |-> terms[p] * n])

\* ------------------------------------------------------------ operator%
rem_guard_strict(remainder, d) ==
    find_degree_of(remainder) > find_degree_of(d) /\ ~is_zero(remainder)

\* the while condition of operator%
rem_guard(remainder, d) ==
    find_degree_of(remainder) >= find_degree_of(d) /\ ~is_zero(remainder)

\* temp of one reduction step: the single entry (pow_shift, coef_shift)
rem_temp(remainder, d) ==
    LET deg_r == find_degree_of(remainder)
        deg_d == find_degree_of(d)
    IN  ((deg_r - deg_d) :> trunc_div(remainder[deg_r], d[deg_d]))

subtract_terms_added(terms, pairs, k) == fold_pairs(terms, pairs, k)

\* for (t : subtract.terms) remainder.terms[t.first] -= t.second
RECURSIVE subtract_terms(_, _, _)
subtract_terms(terms, pairs, k) ==
    IF k > Len(pairs) THEN terms
    ELSE subtract_terms(accumulate(terms, pairs[k][1], -pairs[k][2]), pairs, k + 1)

\* one pass of the while body of operator%
rem_body(remainder, d) ==
    LET subtract == multiply(rem_temp(remainder, d), d)
    IN  clean(subtract_terms(remainder, to_vector(subtract), 1))

\* ================================================================= state
VARIABLES
    x, y,          \* the two polynomial objects the caller holds (their terms)
    op,            \* the operation called last
    pc,            \* position of the calling thread
    ret,           \* << >>, or <<terms>> of the polynomial the last call returned
    threw,         \* the last call ended in std::runtime_error
    remainder, d,  \* locals of operator%
    a, b,          \* locals of operator*: the two term vectors
    num_threads, chunk, t,
    threads,       \* pthread_t per slot, 0 where no thread was created
    tasks,         \* MulTask per slot: start, end, partial (the number of the
                   \* entry of partials it points at, 0 = nullptr; a and b
                   \* point at the vectors above)
    partials,      \* one unordered_map accumulator per slot
    workers        \* each worker thread's position: st, i, j

remvars == <<remainder, d>>
mulvars == <<a, b, num_threads, chunk, t, threads, tasks, partials, workers>>
vars == <<x, y, op, pc, ret, threw, remainder, d,
          a, b, num_threads, chunk, t, threads, tasks, partials, workers>>

\* ---------------------------------------------------------------- inputs
Pairs == (0..MaxExp) \X (-MaxCoef..MaxCoef)

\* every polynomial the constructor builds from a vector of two input pairs
\* (equal exponents are summed, zero coefficients are stripped)
Polys == {polynomial_from(<<p, q>>) : p \in Pairs, q \in Pairs}

\* every polynomial the constructor builds from a vector of one input pair
Monos == {polynomial_from(<<p>>) : p \in Pairs}

Ints == -MaxInt..MaxInt

NoMulFrame ==
    /\ a = << >> /\ b = << >>
    /\ num_threads = 0 /\ chunk = 0 /\ t = 0
    /\ threads = << >> /\ tasks = << >> /\ partials = << >> /\ workers = << >>

NoRemFrame == remainder = EmptyMap /\ d = EmptyMap

\* ============================================== the value-level machine
\* Two objects built by the pair constructor; every operator is one step,
\* except operator%, whose loop test and loop body are steps of their own.
\* A call ends at "done" with its returned temporary in ret (or with threw);
\* the caller then assigns the temporary to x or lets it go out of scope.
Init ==
    /\ x \in Polys /\ y \in Polys
    /\ op = "none" /\ pc = "idle" /\ ret = << >> /\ threw = FALSE
    /\ NoRemFrame
    /\ NoMulFrame

Returns(name, terms) ==
    /\ op' = name /\ pc' = "done" /\ ret' = <<terms>> /\ threw' = FALSE
    /\ UNCHANGED <<x, y>>
    /\ UNCHANGED remvars /\ UNCHANGED mulvars

\* polynomial::polynomial(const polynomial &other)
Copy == pc = "idle" /\ Returns("copy", x)

\* polynomial::operator=: x = <the temporary returned last>
Assign ==
    /\ pc = "done" /\ ret # << >> /\ ret[1] \in Polys
    /\ x' = ret[1]
    /\ op' = "none" /\ pc' = "idle" /\ ret' = << >>
    /\ UNCHANGED <<y, threw>>
    /\ UNCHANGED remvars /\ UNCHANGED mulvars

\* the temporary is destroyed, or the exception is caught
Drop ==
    /\ pc = "done"
    /\ op' = "none" /\ pc' = "idle" /\ ret' = << >> /\ threw' = FALSE
    /\ UNCHANGED <<x, y>>
    /\ UNCHANGED remvars /\ UNCHANGED mulvars

AddInPlace ==
    /\ pc = "idle"
    /\ x' = add(x, y)
    /\ op' = "add" /\ pc' = "done" /\ ret' = <<x'>> /\ threw' = FALSE
    /\ UNCHANGED y
    /\ UNCHANGED remvars /\ UNCHANGED mulvars

Add == pc = "idle" /\ Returns("add", add(x, y))

AddInt == pc = "idle" /\ \E n \in Ints : Returns("add_int", add_int(x, n))

Mul == pc = "idle" /\ Returns("mul", multiply(x, y))

MulInt == pc = "idle" /\ \E n \in Ints : Returns("mul_int", multiply_int(x, n))

RemCallCopiesFirst ==
    /\ pc = "idle"
    /\ op' = "rem" /\ ret' = << >>
    /\ remainder' = clean(x) /\ d' = clean(y)
    /\ IF is_zero(y)
       THEN threw' = TRUE /\ pc' = "done"
       ELSE threw' = FALSE /\ pc' = "rem_test"
    /\ UNCHANGED <<x, y>> /\ UNCHANGED mulvars

\* operator% up to the first loop test: the zero-divisor throw, or the copies
RemCall ==
    /\ pc = "idle"
    /\ op' = "rem" /\ ret' = << >>
    /\ IF is_zero(y)
       THEN /\ threw' = TRUE /\ pc' = "done"
            /\ UNCHANGED remvars
       ELSE /\ threw' = FALSE /\ pc' = "rem_test"
            /\ remainder' = clean(x) /\ d' = clean(y)
    /\ UNCHANGED <<x, y>> /\ UNCHANGED mulvars

\* the while condition: enter the body, or return remainder
RemTest ==
    /\ pc = "rem_test"
    /\ IF rem_guard(remainder, d)
       THEN /\ pc' = "rem_body"
            /\ UNCHANGED <<ret, remainder, d>>
       ELSE /\ pc' = "done" /\ ret' = <<remainder>>
            /\ remainder' = EmptyMap /\ d' = EmptyMap
    /\ UNCHANGED <<x, y, op, threw>> /\ UNCHANGED mulvars

\* the while body
RemBody ==
    /\ pc = "rem_body"
    /\ remainder' = rem_body(remainder, d)
    /\ pc' = "rem_test"
    /\ UNCHANGED <<x, y, op, ret, threw, d>> /\ UNCHANGED mulvars

Next ==
    \/ Copy \/ Assign \/ Drop \/ Add \/ AddInt \/ Mul \/ MulInt
    \/ RemCall \/ RemTest \/ RemBody

Spec == Init /\ [][Next]_vars

\* One call x % y on its own, from the construction of the two objects to
\* the return or throw.  The calling thread is the only thread there is and
\* it always runs on.
InitNew ==
    /\ x = polynomial /\ y = polynomial
    /\ op = "none" /\ pc = "new" /\ ret = << >> /\ threw = FALSE
    /\ NoRemFrame
    /\ NoMulFrame

\* x and y are built by polynomial(Iter begin, Iter end)
Construct ==
    /\ pc = "new"
    /\ x' \in Polys /\ y' \in Polys
    /\ pc' = "idle"
    /\ UNCHANGED <<op, ret, threw>> /\ UNCHANGED remvars /\ UNCHANGED mulvars

RemNext == Construct \/ RemCall \/ RemTest \/ RemBody

SpecRem == InitNew /\ [][RemNext]_vars /\ WF_vars(RemNext)

\* One call (Q * D) % D: the dividend is a product the multiplication
\* returned, the divisor is its right factor and is not the zero polynomial.
ConstructProduct ==
    /\ pc = "new"
    /\ \E q \in Polys, dd \in Polys \ {polynomial} :
          x' = multiply(q, dd) /\ y' = dd
    /\ pc' = "idle"
    /\ UNCHANGED <<op, ret, threw>> /\ UNCHANGED remvars /\ UNCHANGED mulvars

DivNext == ConstructProduct \/ RemCall \/ RemTest \/ RemBody

SpecDiv == InitNew /\ [][DivNext]_vars

\* ============================================= the thread-level machine
\* One call x * y of operator*, the calling thread and the worker threads it
\* creates interleaved at single steps: one pass of a loop body is a step.
\* The operands are dense polynomials of 1..MaxTermsA and 1..MaxTermsB terms
\* with coefficients 1 and s (s = 1: all ones, s = -1: alternating signs),
\* and the zero polynomial.
signed_dense(n, s) == [e \in 0..(n - 1) |-> IF e % 2 = 0 THEN 1 ELSE s]

MulLeft == {polynomial} \cup {signed_dense(n, s) : n \in 1..MaxTermsA, s \in {1, -1}}

MulRight == {polynomial} \cup {signed_dense(n, s) : n \in 1..MaxTermsB, s \in {1, -1}}

MulInit ==
    /\ x \in MulLeft /\ y \in MulRight
    /\ op = "mul" /\ pc = "call" /\ ret = << >> /\ threw = FALSE
    /\ NoRemFrame
    /\ NoMulFrame

\* the zero checks: return polynomial() before anything is materialised
MulZero ==
    /\ pc = "call"
    /\ zero_operand(x, y)
    /\ ret' = <<polynomial>> /\ pc' = "done"
    /\ UNCHANGED <<x, y, op, threw>> /\ UNCHANGED remvars /\ UNCHANGED mulvars

\* a and b are materialised and num_threads <= 1: the double loop in the caller
MulSequential ==
    /\ pc = "call"
    /\ ~zero_operand(x, y)
    /\ LET av == to_vector(x)
           bv == to_vector(y)
       IN  /\ av = << >> \/ bv = << >> \/ num_threads_of(Len(av)) <= 1
           /\ a' = av /\ b' = bv
           /\ IF av = << >> \/ bv = << >>
              THEN ret' = <<polynomial>> /\ num_threads' = 0
              ELSE /\ ret' = <<sequential_multiply(av, bv)>>
                   /\ num_threads' = num_threads_of(Len(av))
    /\ pc' = "done"
    /\ UNCHANGED <<x, y, op, threw>> /\ UNCHANGED remvars
    /\ UNCHANGED <<chunk, t, threads, tasks, partials, workers>>

\* a and b are materialised and num_threads > 1: threads, tasks and partials
\* are allocated (value-initialised) and chunk is computed
MulFanOut ==
    /\ pc = "call"
    /\ ~zero_operand(x, y)
    /\ LET av == to_vector(x)
           bv == to_vector(y)
           nt == num_threads_of(Len(av))
       IN  /\ av # << >> /\ bv # << >> /\ nt > 1
           /\ a' = av /\ b' = bv /\ num_threads' = nt
           /\ chunk' = chunk_of(Len(av), nt)
           /\ threads' = [k \in 1..nt |-> 0]
           /\ tasks' = [k \in 1..nt |-> [start |-> 0, end |-> 0, partial |-> 0]]
           /\ partials' = [k \in 1..nt |-> EmptyMap]
           /\ workers' = [k \in 1..nt |-> [st |-> "none", i |-> 0, j |-> 0]]
    /\ t' = 0 /\ pc' = "launch"
    /\ UNCHANGED <<x, y, op, ret, threw>> /\ UNCHANGED remvars

MulLaunchSharedPartial ==
    /\ pc = "launch"
    /\ LET start == task_start(t, chunk)
           end == task_end(t, chunk, Len(a))
       IN  IF start >= end
           THEN /\ threads' = [threads EXCEPT ![t + 1] = 0]
                /\ UNCHANGED <<tasks, workers>>
           ELSE /\ tasks' = [tasks EXCEPT ![t + 1] =
                               [start |-> start, end |-> end, partial |-> 1]]
                /\ threads' = [threads EXCEPT ![t + 1] = t + 1]
                /\ workers' = [workers EXCEPT
                                 ![t + 1] = [st |-> "running", i |-> start, j |-> 0]]
    /\ IF t + 1 < num_threads
       THEN t' = t + 1 /\ pc' = "launch"
       ELSE t' = 0 /\ pc' = "join"
    /\ UNCHANGED <<x, y, op, ret, threw>> /\ UNCHANGED remvars
    /\ UNCHANGED <<a, b, num_threads, chunk, partials>>

\* one pass of the launch loop, for slot t (slot t is entry t + 1 here);
\* tasks[t].partial = &partials[t] is the entry number t + 1
MulLaunch ==
    /\ pc = "launch"
    /\ LET start == task_start(t, chunk)
           end == task_end(t, chunk, Len(a))
       IN  IF start >= end
           THEN /\ threads' = [threads EXCEPT ![t + 1] = 0]
                /\ UNCHANGED <<tasks, workers>>
           ELSE /\ tasks' = [tasks EXCEPT ![t + 1] =
                               [start |-> start, end |-> end, partial |-> t + 1]]
                /\ threads' = [threads EXCEPT ![t + 1] = t + 1]
                /\ workers' = [workers EXCEPT
                                 ![t + 1] = [st |-> "running", i |-> start, j |-> 0]]
    /\ IF t + 1 < num_threads
       THEN t' = t + 1 /\ pc' = "launch"
       ELSE t' = 0 /\ pc' = "join"
    /\ UNCHANGED <<x, y, op, ret, threw>> /\ UNCHANGED remvars
    /\ UNCHANGED <<a, b, num_threads, chunk, partials>>

MulJoinNoWait ==
    /\ pc = "join"
    /\ IF t + 1 < num_threads
       THEN t' = t + 1 /\ pc' = "join"
       ELSE t' = 0 /\ pc' = "merge"
    /\ UNCHANGED <<x, y, op, ret, threw>> /\ UNCHANGED remvars
    /\ UNCHANGED <<a, b, num_threads, chunk, threads, tasks, partials, workers>>

\* one pass of the join loop, for slot t: pthread_join returns once the
\* worker has returned
MulJoin ==
    /\ pc = "join"
    /\ IF threads[t + 1] # 0
       THEN /\ workers[t + 1].st = "exited"
            /\ workers' = [workers EXCEPT ![t + 1].st = "joined"]
       ELSE UNCHANGED workers
    /\ IF t + 1 < num_threads
       THEN t' = t + 1 /\ pc' = "join"
       ELSE t' = 0 /\ pc' = "merge"
    /\ UNCHANGED <<x, y, op, ret, threw>> /\ UNCHANGED remvars
    /\ UNCHANGED <<a, b, num_threads, chunk, threads, tasks, partials>>

\* combine the partial results, clean, return
MulMerge ==
    /\ pc = "merge"
    /\ ret' = <<clean(merge_partials(EmptyMap, partials, 1))>>
    /\ pc' = "done"
    /\ UNCHANGED <<x, y, op, threw>> /\ UNCHANGED remvars /\ UNCHANGED mulvars

\* one pass of the inner loop body of multiply_worker in worker w, with the
\* loop tests that follow it
WorkerStep(w) ==
    /\ w \in DOMAIN workers
    /\ workers[w].st = "running"
    /\ LET i == workers[w].i
           j == workers[w].j
           local == tasks[w].partial
       IN  /\ partials' = [partials EXCEPT ![local] = mul_acc(@, a[i + 1], b[j + 1])]
           /\ workers' = [workers EXCEPT ![w] =
                            IF j + 1 < Len(b) THEN [st |-> "running", i |-> i, j |-> j + 1]
                            ELSE IF i + 1 < tasks[w].end
                                 THEN [st |-> "running", i |-> i + 1, j |-> 0]
                                 ELSE [st |-> "exited", i |-> i + 1, j |-> 0]]
    /\ UNCHANGED <<x, y, op, pc, ret, threw>> /\ UNCHANGED remvars
    /\ UNCHANGED <<a, b, num_threads, chunk, t, threads, tasks>>

\* The objects of one call that more than one thread can reach, as locations:
\* <<"a">>, <<"b">>, <<"tasks", k>>, <<"threads", k>>, <<"partials", k>> and
\* the caller's <<"result">>.  What a running worker touches in its loop:
\* it reads its MulTask and the two vectors, and local[p] += c reads and
\* writes the accumulator its task points at.
worker_reads(w) ==
    {<<"tasks", w>>, <<"a">>, <<"b">>, <<"partials", tasks[w].partial>>}

worker_writes(w) == {<<"partials", tasks[w].partial>>}

\* what the next step of the calling thread touches
caller_reads ==
    CASE pc = "launch" -> {<<"a">>}
      [] pc = "join" -> {<<"threads", t + 1>>}
      [] pc = "merge" -> {<<"partials", k>> : k \in DOMAIN partials}
      [] OTHER -> {}

caller_writes ==
    CASE pc = "launch" ->
             IF task_start(t, chunk) >= task_end(t, chunk, Len(a))
             THEN {<<"threads", t + 1>>}
             ELSE {<<"tasks", t + 1>>, <<"threads", t + 1>>}
      [] pc = "merge" -> {<<"result">>}
      [] OTHER -> {}

WorkerNext == \E w \in 1..MAX_THREADS : WorkerStep(w)

MulNext ==
    \/ MulZero \/ MulSequential \/ MulFanOut
    \/ MulLaunch \/ MulJoin \/ MulMerge
    \/ WorkerNext

SpecMul == MulInit /\ [][MulNext]_vars

\* ================================================================ claims

\* C1: for every dividend and every non-zero divisor the reduction loop of
\* operator% terminates: a call that reached the loop eventually returns.
C1_RemainderTerminates == [](pc = "rem_test" => <>(pc = "done"))

\* C2: whenever remainder(A, D) returns, the returned polynomial has degree
\* strictly below degree(D) or is the canonical zero polynomial.
C2_DegreeBound ==
    (pc = "done" /\ op = "rem" /\ ret # << >>)
        => (find_degree_of(ret[1]) < find_degree_of(y) \/ ret[1] = polynomial)

\* a remainder that took reduction steps and is neither A nor zero
C2_Witness ==
    /\ pc = "done" /\ op = "rem" /\ ret # << >>
    /\ ret[1] # polynomial /\ ret[1] # x
    /\ find_degree_of(y) >= 1

\* C3: the fan-out path of operator*, under every interleaving of its
\* workers, returns exactly what the sequential double loop computes from
\* the same two term vectors.
C3_ParallelEqualsSequential ==
    (pc = "done" /\ num_threads > 1) => ret = <<sequential_multiply(a, b)>>

\* a call with all MAX_THREADS slots, a short last chunk and cancelling terms
C3_Witness ==
    /\ pc = "done" /\ num_threads = MAX_THREADS
    /\ Len(a) > MAX_THREADS /\ Len(b) > 1
    /\ Cardinality(DOMAIN ret[1]) < Len(a)

\* the statement of the convolution: the coefficient of exponent e is the sum
\* of ca * cb over the terms (pa, ca) of A and (pb, cb) of B with pa + pb = e
RECURSIVE sum_products(_, _, _, _)
sum_products(A, B, e, S) ==
    IF S = {} THEN 0
    ELSE LET pa == CHOOSE p \in S : TRUE
         IN  A[pa] * B[e - pa] + sum_products(A, B, e, S \ {pa})

conv_coef(A, B, e) ==
    sum_products(A, B, e, {pa \in DOMAIN A : e >= pa /\ (e - pa) \in DOMAIN B})

convolution(A, B) ==
    LET exps == {pa + pb : pa \in DOMAIN A, pb \in DOMAIN B}
        nonzero == {e \in exps : conv_coef(A, B, e) # 0}
    IN  IF nonzero = {} THEN (0 :> 0) ELSE [e \in nonzero |-> conv_coef(A, B, e)]

\* C4: operator* returns the canonicalised convolution of its operands, on
\* the zero shortcut, the sequential path and the fan-out path alike.
C4_Convolution == pc = "done" => ret = <<convolution(x, y)>>

\* a fan-out product in which several pairs of terms land on one exponent
C4_Witness ==
    /\ pc = "done" /\ num_threads > 1 /\ Len(b) > 1
    /\ \E e \in DOMAIN ret[1] : Abs(ret[1][e]) > 1

Canonical(terms) ==
    LET cf == canonical_form(terms)
    IN  /\ DOMAIN terms # {}
        /\ DOMAIN terms \subseteq Nat
        /\ (\E p \in DOMAIN terms : terms[p] = 0) => terms = (0 :> 0)
        /\ Cardinality({cf[k][1] : k \in 1..Len(cf)}) = Len(cf)

\* C5: every polynomial the constructor builds and every polynomial an
\* operation returns, after any sequence of operations, is non-empty, has
\* unique exponents and stores a zero coefficient only as the single (0, 0).
C5_CanonicalResults ==
    /\ pc = "idle" => (Canonical(x) /\ Canonical(y))
    /\ pc = "done" /\ ret # << >> => Canonical(ret[1])

\* a sum whose terms all cancel, returned as the single (0, 0) entry
C5_Witness ==
    /\ pc = "done" /\ op = "add" /\ ret = <<polynomial>>
    /\ Cardinality(DOMAIN x) = 2

\* C6: remainder by the canonical zero polynomial throws at once: the loop is
\* never entered, no copy is made, nothing is returned, and the operands are
\* what they were.
C6_ZeroDivisorThrows ==
    /\ []((op = "rem" /\ is_zero(y))
            => (pc = "done" /\ threw /\ ret = << >> /\ NoRemFrame))
    /\ [][(pc = "idle" /\ op' = "rem" /\ is_zero(y))
            => (threw' /\ x' = x /\ y' = y)]_vars

\* a non-zero dividend divided by zero
C6_Witness == pc = "done" /\ op = "rem" /\ threw /\ ~is_zero(x)

\* C7: in remainder(multiply(Q, D), D), D not the zero polynomial, every pass
\* of the loop body lowers the degree of remainder or leaves the canonical
\* zero polynomial (so the loop ends), nothing is thrown, and what the call
\* returns is the canonical zero polynomial.
C7_ExactDivision ==
    /\ [](op = "rem" => ~threw)
    /\ []((pc = "done" /\ op = "rem") => ret = <<polynomial>>)
    /\ [][pc = "rem_body"
            => (\/ remainder' = polynomial
                \/ find_degree_of(remainder') < find_degree_of(remainder))]_vars

\* a dividend of degree 3 or more divided exactly by a two-term divisor
C7_Witness ==
    /\ pc = "done" /\ op = "rem" /\ ret = <<polynomial>>
    /\ find_degree_of(x) >= 3 /\ find_degree_of(y) >= 1
    /\ Cardinality(DOMAIN y) = 2

\* C8: with a zero operand operator* returns the canonical zero polynomial
\* with nothing materialised, no accumulator written and no thread created.
C8_ZeroShortcut ==
    (pc = "done" /\ (is_zero(x) \/ is_zero(y)))
        => (ret = <<polynomial>> /\ NoMulFrame)

\* a left operand of several terms times zero, and zero times a right operand
C8_Witness ==
    /\ pc = "done" /\ ret = <<polynomial>>
    /\ \/ is_zero(y) /\ Cardinality(DOMAIN x) > 1
       \/ is_zero(x) /\ Cardinality(DOMAIN y) > 1

\* C9: A * (B + C) and A * B + A * C have the same canonical form, for the
\* product A * B just returned and every one-pair polynomial C.
C9_Distributive ==
    (pc = "done" /\ op = "mul")
        => \A c \in Monos :
              canonical_form(multiply(x, add(y, c)))
                  = canonical_form(add(ret[1], multiply(x, c)))

\* both products of two terms each: A * B took the fan-out path
C9_Witness ==
    /\ pc = "done" /\ op = "mul"
    /\ Cardinality(DOMAIN x) = 2 /\ Cardinality(DOMAIN y) = 2
    /\ Cardinality(DOMAIN ret[1]) = 2

\* C10: no step of add, add_int, multiply, multiply_int, the copy or the
\* remainder (its throw included) changes the terms of x or y; only the
\* assignment x = ... does.
C10_OperandsUnchanged ==
    [][(pc \in {"idle", "rem_test", "rem_body"}) => (x' = x /\ y' = y)]_vars

\* a sum that differs from both operands has been returned
C10_Witness ==
    /\ pc = "done" /\ op = "add"
    /\ ret[1] # x /\ ret[1] # y /\ ~is_zero(y)

\* C11: adding the canonical zero polynomial on either side gives back the
\* other operand: the sum A + 0 and the sum 0 + A have the canonical form of
\* A, also when A is itself the canonical zero polynomial.
C11_AdditiveIdentity ==
    (pc = "done" /\ op = "add")
        => /\ y = polynomial => canonical_form(ret[1]) = canonical_form(x)
           /\ x = polynomial => canonical_form(ret[1]) = canonical_form(y)

\* the sum 0 + A returned for an A of two terms without a constant term
C11_Witness ==
    /\ pc = "done" /\ op = "add"
    /\ x = polynomial /\ Cardinality(DOMAIN y) = 2 /\ 0 \notin DOMAIN y
    /\ ret = <<y>>

\* C12: every pass of the loop body of operator% cancels the leading term of
\* remainder: after the pass the exponent deg_r is no longer stored and the
\* degree of remainder is strictly smaller than deg_r, or remainder is the
\* canonical zero polynomial.
C12_LeadingTermCancelled ==
    [][pc = "rem_body"
         => LET deg_r == find_degree_of(remainder)
            IN  \/ remainder' = polynomial
                \/ /\ deg_r \notin DOMAIN remainder'
                   /\ find_degree_of(remainder') < deg_r]_vars

\* the slots for which pthread_create was called, and the positions of a
\* the task of slot k covers
launched == {k \in DOMAIN threads : threads[k] # 0}

task_range(k) == tasks[k].start .. (tasks[k].end - 1)

\* C13: on the fan-out path, with W = min(8, n) slots and chunk = ceil(n / W),
\* the ranges [start, end) of the launched workers are pairwise disjoint, a
\* worker reads a only at positions of its own range and returns when it has
\* passed the end of it, and once the launch loop is over the ranges together
\* are exactly the positions 0..n-1 of a.
C13_RangesPartition ==
    num_threads > 1
        => /\ num_threads = Min2(MAX_THREADS, Len(a))
           /\ chunk * num_threads >= Len(a)
           /\ (chunk - 1) * num_threads < Len(a)
           /\ \A k \in launched : \A m \in launched :
                  k # m => task_range(k) \cap task_range(m) = {}
           /\ \A k \in launched :
                  /\ workers[k].st = "running" => workers[k].i \in task_range(k)
                  /\ workers[k].st \in {"exited", "joined"}
                        => workers[k].i = tasks[k].end
           /\ pc \in {"join", "merge", "done"}
                  => UNION {task_range(k) : k \in launched} = 0 .. (Len(a) - 1)

\* nine terms in eight slots: five ranges, the last of them one term long
C13_Witness ==
    /\ pc = "join" /\ Len(a) = MAX_THREADS + 1
    /\ Cardinality(launched) = 5
    /\ \E k \in launched : Cardinality(task_range(k)) = 1

\* C14: on the fan-out path the merge of the accumulators starts only when
\* every launched worker has returned and has been joined, and no worker is
\* running when operator* returns (or at any time after the join loop).
C14_MergeAfterJoin ==
    (num_threads > 1 /\ pc \in {"merge", "done"})
        => /\ \A k \in launched : workers[k].st = "joined"
           /\ \A k \in DOMAIN workers : workers[k].st \in {"none", "joined"}

\* the merge is about to start after eight slots, three of them never launched
C14_Witness ==
    /\ pc = "merge" /\ num_threads = MAX_THREADS
    /\ Cardinality(launched) = 5
    /\ \A k \in launched : workers[k].st = "joined" /\ partials[k] # EmptyMap

\* the workers that have been created and have not returned
running == {w \in DOMAIN workers : workers[w].st = "running"}

\* C15: under every interleaving of one call of operator*, no location is
\* written by one thread while another thread reads or writes it; the
\* accumulator partials[k] changes only in a step of worker k, the vectors a
\* and b are written by no worker (they never change once they are built),
\* and the result is written by the calling thread only, at the merge.
C15_NoDataRace ==
    /\ [](\A w \in running :
            /\ worker_writes(w) = {<<"partials", w>>}
            /\ worker_writes(w) \cap (caller_reads \cup caller_writes) = {}
            /\ worker_reads(w) \cap caller_writes = {}
            /\ \A v \in running \ {w} :
                   worker_writes(w) \cap (worker_reads(v) \cup worker_writes(v)) = {})
    /\ [][\A k \in DOMAIN partials \cap DOMAIN partials' :
              partials'[k] # partials[k] => WorkerStep(k)]_vars
    /\ [][pc # "call" => (a' = a /\ b' = b)]_vars
    /\ [][ret' # ret
            => (pc \in {"call", "merge"} /\ pc' = "done" /\ running = {})]_vars

\* three workers alive at once while the caller is still launching, each
\* with something in its own accumulator
C15_Witness ==
    /\ pc = "launch" /\ Cardinality(running) >= 3
    /\ \A w \in running : partials[w] # EmptyMap

\* C16: a call of operator% creates no worker thread: in every pass of the
\* loop body the left operand temp of temp * d has exactly one term, so the
\* multiplication takes the zero shortcut or the sequential path
\* (num_threads <= 1) and calls pthread_create zero times, and no thread
\* state of operator* exists at any point of the call.
C16_RemainderSingleThreaded ==
    /\ op = "rem" => NoMulFrame
    /\ pc = "rem_body"
          => LET temp == rem_temp(remainder, d)
             IN  /\ Cardinality(DOMAIN temp) = 1
                 /\ Len(to_vector(temp)) = 1
                 /\ zero_operand(temp, d) \/ num_threads_of(Len(to_vector(temp))) <= 1
                 /\ threads_launched(temp, d) = 0

\* a pass whose temp is not zero and whose divisor has two terms: the
\* sequential path multiplies one term by two
C16_Witness ==
    /\ pc = "rem_body"
    /\ ~is_zero(rem_temp(remainder, d))
    /\ Cardinality(DOMAIN d) = 2 /\ Cardinality(DOMAIN remainder) >= 2

\* C17: in one call of operator* the number of workers created is at most
\* W = min(8, number of terms of the left operand), whatever the operands
\* are, and at no point are more than 8 workers of the call alive; the zero
\* shortcut and the sequential path create none.
C17_ThreadBound ==
    /\ Cardinality(launched) <= Min2(MAX_THREADS, Cardinality(DOMAIN x))
    /\ Cardinality(running) <= MAX_THREADS
    /\ running \subseteq launched
    /\ DOMAIN workers \subseteq 1..MAX_THREADS
    /\ num_threads <= 1 => launched = {}
    /\ pc \in {"join", "merge", "done"}
          => Cardinality(launched) = threads_launched(x, y)

\* eight workers of one call alive at the same time
C17_Witness ==
    /\ Cardinality(running) = MAX_THREADS
    /\ Cardinality(DOMAIN x) = MAX_THREADS

\* C18: multiplication is commutative: the product A * B just returned and
\* the product B * A have the same canonical form, also when one of the two
\* calls runs the sequential path and the other the fan-out path, or the two
\* fan out over different numbers of workers.
C18_Commutative ==
    (pc = "done" /\ op = "mul")
        => canonical_form(ret[1]) = canonical_form(multiply(y, x))

\* A has one term and B two: A * B ran the sequential path, B * A fans out
\* over two workers
C18_Witness ==
    /\ pc = "done" /\ op = "mul"
    /\ Cardinality(DOMAIN x) = 1 /\ ~is_zero(x)
    /\ Cardinality(DOMAIN y) = 2
    /\ num_threads_of(Len(to_vector(x))) <= 1
    /\ num_threads_of(Len(to_vector(y))) = 2
    /\ Cardinality(DOMAIN ret[1]) = 2

\* C19: on the fan-out path a worker is created only for a non-empty range
\* with 0 <= start < end <= n, and every position at which a worker reads a
\* or b exists; a slot whose range is empty (start >= end) gets no worker,
\* is never joined, keeps its task record untouched and brings an empty
\* accumulator to the merge.
C19_RangesInBounds ==
    num_threads > 1
        => /\ \A k \in launched :
                  /\ 0 <= tasks[k].start /\ tasks[k].start < tasks[k].end
                  /\ tasks[k].end <= Len(a)
                  /\ workers[k].st = "running"
                        => /\ (workers[k].i + 1) \in DOMAIN a
                           /\ (workers[k].j + 1) \in DOMAIN b
           /\ \A k \in DOMAIN threads \ launched :
                  /\ workers[k].st = "none"
                  /\ partials[k] = EmptyMap
                  /\ tasks[k] = [start |-> 0, end |-> 0, partial |-> 0]
           /\ pc \in {"join", "merge", "done"}
                  => \A k \in DOMAIN threads :
                        k \in launched
                            <=> task_start(k - 1, chunk) < task_end(k - 1, chunk, Len(a))

\* nine terms in eight slots, returned: slots 6 to 8 had the empty ranges
\* [10, 9), [12, 9), [14, 9) and were skipped by the launch and join loops
C19_Witness ==
    /\ pc = "done" /\ num_threads = MAX_THREADS /\ Len(a) = MAX_THREADS + 1
    /\ DOMAIN threads \ launched = {6, 7, 8}
    /\ \A k \in {6, 7, 8} :
          task_start(k - 1, chunk) >= Len(a) /\ partials[k] = EmptyMap

====
